---- MODULE Spec2Model ----
(***************************************************************************)
(* Discovery-scoring pipeline of discovered-labs:                          *)
(*   Normalizer / Source Aggregator  (engines/discovery/core.py)           *)
(*   Evidence Collector / Ranker     (engines/discovery/core.py,           *)
(*                                    engines/discovery/community_finder.py)*)
(*   Extractor / Resolver            (engines/inference/extraction.py,     *)
(*                                    engines/inference/llm_client.py)     *)
(*   Views and event streams         (routers/relationships.py,            *)
(*                                    routers/subreddits.py,               *)
(*                                    routers/analysis.py)                 *)
(* Python strings are sequences of one-character strings.                  *)
(***************************************************************************)
EXTENDS Integers, Sequences, FiniteSets, TLC

VARIABLES
    \* deduplicate_subreddits
    dd_pc,            \* "call" | "returned"
    dd_subreddits,    \* the argument `subreddits`
    dd_result,        \* SubredditDiscovery.subreddits of the return value
    \* aggregate_and_filter_subreddits
    ag_pc,            \* "reddit" | "gemini" | "google" | "dedup" | "returned" | "raised"
    combined,         \* the list `combined`
    ag_returned,      \* history: what each source returned, or Failed
    ag_invoked,       \* history: the sources that were invoked
    ag_result,        \* the returned SubredditDiscovery.subreddits
    \* score_and_rank_subreddits_async / score_and_rank_subreddits_stream
    mode,             \* "async_api" | "async_html" | "stream"
    query,            \* the topic string
    subreddits,       \* discovery_result.subreddits
    pc,               \* position of the pipeline coroutine
    i,                \* number of candidates consumed by the while loop
    batch,            \* the current slice subreddits[i:i + batch_size]
    batch_num,
    task,             \* per candidate: position of its task
    posts,            \* per candidate: the fetched posts (index into PostLists)
    pending,          \* per candidate: the row handed to insert_subreddit
    db,               \* the subreddits table: name -> row
    db_open,          \* the connection is open
    scored,           \* freq_map.keys() of the Ranker
    clock,            \* time.time()
    batches,          \* history: the slices <<first, last>> dispatched so far
    jitters,          \* history: number of add_jitter calls
    fetch_calls,      \* history: per candidate, number of fetch invocations
    cutoffs,          \* history: the cutoffs the freshness counts have used
    \* run_parallel_extraction / parallel_extraction_stream
    x_mode,           \* "run" | "stream"
    x_pc,             \* position of the extraction coroutine
    all_posts,        \* fetch_all_posts(db): the post ids, in order
    post_batches,     \* the list `batches`, each slice as <<first, last>>
    results,          \* per batch: "pending", or how get_llm_triplets ended
    completed,        \* the batches in the order their threads ended
    inference_calls,  \* history: per batch, inference steps begun
    canonical_names,  \* the names handed to resolve_entity_names
    resolution,       \* how resolve_entity_names ended
    resolve_calls,    \* history: clustering inference steps begun
    name_mapping,     \* the dict resolve_entity_names returned
    triplet_rows,     \* the triplets table
    x_trace,          \* history: the events yielded and the calls made, in order
    \* process_json_responses and the hand-over to the caller
    posts_table,      \* the candidates whose items were inserted into `posts`
    disk_open,        \* the connection migrate_to_disk returned is open
    handed,           \* what the pipeline gave its caller
    \* get_force_graph
    g_pc,             \* "call" | "returned"
    g_rows,           \* the rows of the triplets table, in the order fetched
    nodes,            \* GraphData.nodes, sorted by id
    links,            \* GraphData.links, sorted by (source, target)
    \* get_subreddit
    q_pc,             \* "call" | "answered"
    q_store,          \* per database file: the subreddits table
    q_before,         \* history: q_store when the request arrived
    q_name,           \* the path parameter subreddit_name
    q_report,         \* the query parameter report
    q_fault,          \* the step at which the store raises, or "none"
    q_status,         \* the HTTP status of the response
    \* event_stream
    an_pc,            \* "phase1" | "phase2" | "closed"
    an_phase1,        \* the events the discovery generator yields if nothing raises
    an_phase2,        \* the events the extraction generator yields if nothing raises
    an_pos,           \* number of events consumed from the current generator
    an_db_conn,       \* the local db_conn
    an_failed,        \* history: a phase has raised
    sent              \* history: the events sent to the consumer

ddVars == <<dd_pc, dd_subreddits, dd_result>>
agVars == <<ag_pc, combined, ag_returned, ag_invoked, ag_result>>
colVars == <<mode, query, subreddits, pc, i, batch, batch_num, task, posts, pending,
             db, db_open, scored, clock, batches, jitters, fetch_calls, cutoffs>>
exVars == <<x_mode, x_pc, all_posts, post_batches, results, completed, inference_calls,
            canonical_names, resolution, resolve_calls, name_mapping, triplet_rows,
            x_trace>>
outVars == <<posts_table, disk_open, handed>>
grVars == <<g_pc, g_rows, nodes, links>>
qVars == <<q_pc, q_store, q_before, q_name, q_report, q_fault, q_status>>
anVars == <<an_pc, an_phase1, an_phase2, an_pos, an_db_conn, an_failed, sent>>
vars == <<ddVars, agVars, colVars, exVars, outVars, grVars, qVars, anVars>>

---------------------------------------------------------------------------
(* Python str helpers *)

\* str.lower() on one character
LowerChar(c) ==
    CASE c = "R" -> "r"
      [] c = "A" -> "a"
      [] c = "B" -> "b"
      [] c = "T" -> "t"
      [] OTHER -> c

\* str.lower()
Lower(s) == [k \in 1..Len(s) |-> LowerChar(s[k])]

\* characters str.strip() removes
IsSpace(c) == c = " "

RECURSIVE LStrip(_)
LStrip(s) == IF s # <<>> /\ IsSpace(Head(s)) THEN LStrip(Tail(s)) ELSE s

RECURSIVE RStrip(_)
RStrip(s) ==
    IF s # <<>> /\ IsSpace(s[Len(s)]) THEN RStrip(SubSeq(s, 1, Len(s) - 1)) ELSE s

\* str.strip()
Strip(s) == RStrip(LStrip(s))

\* str.startswith(p)
StartsWith(s, p) == Len(s) >= Len(p) /\ SubSeq(s, 1, Len(p)) = p

\* Python values that are not str; the second is falsy as well
PyNone == <<"None">>
PyInt == <<"int">>
IsStr(x) == x # PyNone /\ x # PyInt

---------------------------------------------------------------------------
(* Normalizer *)

RSlash == <<"r", "/">>
SlashRSlash == <<"/", "r", "/">>

\* core.py normalize_name; PyNone stands for the returned None
normalize_name(x) ==
    IF x = <<>> \/ ~IsStr(x) THEN PyNone
    ELSE IF StartsWith(x, SlashRSlash) THEN Lower(Tail(x))
    ELSE IF StartsWith(x, RSlash) THEN Lower(x)
    ELSE RSlash \o Lower(Strip(x))

\* `if normalized:` -- None and "" are falsy
Truthy(n) == n # PyNone /\ n # <<>>

\* core.py deduplicate_subreddits: the set behind the returned list
deduplicate_subreddits(names) ==
    { normalize_name(names[k]) : k \in
        { j \in 1..Len(names) : Truthy(normalize_name(names[j])) } }

---------------------------------------------------------------------------
(* Inputs of the Normalizer: prefix, padding and body variants *)

MaxBody == 2
MaxList == 2

BodyChars == {"a", "A", "b"}
Bodies == UNION { [1..n -> BodyChars] : n \in 0..MaxBody }
Prefixes == { <<>>, RSlash, SlashRSlash, <<"R", "/">> }
Pads == { <<>>, <<" ">> }
RawInputs ==
    { l \o p \o b \o r : l \in Pads, p \in Prefixes, b \in Bodies, r \in Pads }
        \cup {PyNone, PyInt}

InputLists == UNION { [1..n -> RawInputs] : n \in 0..MaxList }

InitDedup ==
    /\ dd_pc = "call"
    /\ dd_subreddits \in InputLists
    /\ dd_result = {}

\* one call of deduplicate_subreddits
Deduplicate ==
    /\ dd_pc = "call"
    /\ dd_result' = deduplicate_subreddits(dd_subreddits)
    /\ dd_pc' = "returned"
    /\ UNCHANGED dd_subreddits
    /\ UNCHANGED <<agVars, colVars, exVars, outVars, grVars, qVars, anVars>>

---------------------------------------------------------------------------
(* Source Aggregator: aggregate_and_filter_subreddits *)

MaxSourceLen == 1

Sources == <<"reddit", "gemini", "google">>
Failed == [failed |-> TRUE, found |-> <<>>]
Returned(found) == [failed |-> FALSE, found |-> found]

\* identifiers a discovery capability can hand back
SourceNames ==
    { <<"r", "/", "a">>, <<"A">>, <<"/", "r", "/", "a">>, <<"R", "/", "a">>,
      <<"r", "/", "b">>, <<" ", "b">>, PyNone }
SourceLists == UNION { [1..n -> SourceNames] : n \in 0..MaxSourceLen }

\* the statement after a source's try/except
AfterSource(src) ==
    CASE src = "reddit" -> "gemini"
      [] src = "gemini" -> "google"
      [] src = "google" -> "dedup"

\* the same handler without its try/except: the failure leaves the call
OnSourceFailureAborts(src) == "raised"

\* `except Exception as exc: print(...)`: the failure is swallowed and
\* control falls through to the next source
OnSourceFailure(src) == AfterSource(src)

InitAggregate ==
    /\ ag_pc = "reddit"
    /\ combined = <<>>
    /\ ag_returned = <<>>
    /\ ag_invoked = {}
    /\ ag_result = {}

\* one source's try block returns a list: combined.extend(list)
SourceReturns ==
    /\ ag_pc \in {"reddit", "gemini", "google"}
    /\ \E found \in SourceLists :
         /\ combined' = combined \o found
         /\ ag_returned' = (ag_pc :> Returned(found)) @@ ag_returned
    /\ ag_invoked' = ag_invoked \cup {ag_pc}
    /\ ag_pc' = AfterSource(ag_pc)
    /\ UNCHANGED ag_result
    /\ UNCHANGED <<ddVars, colVars, exVars, outVars, grVars, qVars, anVars>>

\* one source's try block raises
SourceRaises ==
    /\ ag_pc \in {"reddit", "gemini", "google"}
    /\ combined' = combined
    /\ ag_returned' = (ag_pc :> Failed) @@ ag_returned
    /\ ag_invoked' = ag_invoked \cup {ag_pc}
    /\ ag_pc' = OnSourceFailure(ag_pc)
    /\ UNCHANGED ag_result
    /\ UNCHANGED <<ddVars, colVars, exVars, outVars, grVars, qVars, anVars>>

\* return deduplicate_subreddits(combined)
AggregateReturn ==
    /\ ag_pc = "dedup"
    /\ ag_result' = deduplicate_subreddits(combined)
    /\ ag_pc' = "returned"
    /\ UNCHANGED <<combined, ag_returned, ag_invoked>>
    /\ UNCHANGED <<ddVars, colVars, exVars, outVars, grVars, qVars, anVars>>

---------------------------------------------------------------------------
(* Evidence Collector: calculate_and_insert_subreddit_score *)

H48 == 48 * 3600
StartTime == 2 * H48

\* created_datetime that datetime.fromisoformat rejects, or ""
NoDate == -1

Tesla == <<"t", "e", "s", "l", "a">>
TeslaCap == <<"T", "e", "s", "l", "a">>
AA == <<"a", " ", "a">>

Post(title, body, ups, ncomments, created) ==
    [post_title |-> title, self_text |-> body, ups |-> ups,
     num_comments |-> ncomments, created |-> created]

\* what the evidence-fetch capability can return for a candidate
PostLists == <<
    \* 1: three items mentioning "tesla" once, once and twice, all fresh
    << Post(TeslaCap, <<"x">>, 2, 1, StartTime - 10),
       Post(<<"a">>, Tesla, 0, 3, StartTime - 20),
       Post(Tesla, TeslaCap, 1, 0, StartTime - 30) >>,
    \* 2: popular items that do not mention tesla: one on the 48-hour
    \* boundary whose title and body meet as "a a", one without usable date,
    \* one older than 48 hours
    << Post(<<"a">>, <<"a">>, -1, 0, StartTime - H48 + 2),
       Post(AA \o <<" ", "b", " ">> \o AA, AA, 9, 4, NoDate),
       Post(<<"A", " ", "a", " ", "A">>, <<"b">>, 5, 5, StartTime - H48 - 1) >>,
    \* 3: the capability found nothing
    << >>
  >>

\* re.compile(re.escape(q)).findall(text): leftmost non-overlapping matches
RECURSIVE FindAll(_, _, _)
FindAll(text, pat, pos) ==
    IF pat = <<>> THEN Len(text) + 2 - pos
    ELSE IF pos + Len(pat) - 1 > Len(text) THEN 0
    ELSE IF SubSeq(text, pos, pos + Len(pat) - 1) = pat
         THEN 1 + FindAll(text, pat, pos + Len(pat))
         ELSE FindAll(text, pat, pos + 1)

\* text = title_lower + " " + selftext_lower
PostText(post) == Lower(post.post_title) \o <<" ">> \o Lower(post.self_text)

\* the count taken on the text as fetched, not lower-cased
PostFrequencyCaseSensitive(post, q) ==
    FindAll(post.post_title \o <<" ">> \o post.self_text, Lower(q), 1)

\* frequency += len(pattern.findall(text))
PostFrequency(post, q) == FindAll(PostText(post), Lower(q), 1)

\* created_time >= cutoff, a date that does not parse being skipped
PostFresh(post, cutoff) ==
    IF post.created # NoDate /\ post.created >= cutoff THEN 1 ELSE 0

\* the running totals of the `for post in posts` loop
RECURSIVE SumSeq(_)
SumSeq(xs) == IF xs = <<>> THEN 0 ELSE Head(xs) + SumSeq(Tail(xs))

\* cutoff = now - (48 * 3600), with now = time.time() read inside the call
Cutoff(now) == now - H48

\* the row calculate_and_insert_subreddit_score hands to insert_subreddit
CalculateRow(p, q, now) ==
    LET ps == PostLists[p]
    IN [ json_response |-> IF ps # <<>> THEN p ELSE 0,
         engagement |->
             SumSeq([k \in 1..Len(ps) |-> ps[k].ups + ps[k].num_comments]),
         freshness |->
             SumSeq([k \in 1..Len(ps) |-> PostFresh(ps[k], Cutoff(now))]),
         frequency |->
             SumSeq([k \in 1..Len(ps) |-> PostFrequency(ps[k], q)]),
         relevance |-> [null |-> TRUE, num |-> 0, den |-> 1] ]

---------------------------------------------------------------------------
(* Evidence Collector: batched dispatch with jitter *)

MaxCands == 4

BatchMin == 2
BatchMax == 4
MinFrequency == 3

Modes == {"async_api", "async_html", "stream"}
Queries == {TeslaCap, AA}
JitterDelays == {2, 3}

Cands == 1..Len(subreddits)
InFlight == { c \in Cands : task[c] \in {"scheduled", "fetching", "inserting"} }

\* the same task without try/except: gather re-raises into the pipeline
PcAfterTaskExceptionRaised(cur) == "aborted"

\* `except Exception as e: print(...)` around a candidate's fetch and around
\* calculate_and_insert_subreddit_score: the pipeline coroutine carries on
PcAfterTaskException(cur) == cur

\* the index advanced by the smallest batch size instead of len(batch)
NextIByMinSize(consumed, b) == consumed + BatchMin

\* `i += len(batch)`
NextI(consumed, b) == consumed + Len(b)

\* the delay taken after every batch, the last included
NeedJitterAlways(consumed, total) == TRUE

\* `if i < len(subreddits): await add_jitter(...)`
NeedJitter(consumed, total) == consumed < total

Min2(a, b) == IF a < b THEN a ELSE b

InitCollect ==
    /\ mode \in Modes
    /\ query \in Queries
    /\ \E n \in 0..MaxCands : subreddits = [k \in 1..n |-> k]
    /\ pc = "start"
    /\ i = 0
    /\ batch = <<>>
    /\ batch_num = 1
    /\ task = [c \in 1..MaxCands |-> "none"]
    /\ posts = [c \in 1..MaxCands |-> 0]
    /\ pending = [c \in {} |-> 0]
    /\ db = [c \in {} |-> 0]
    /\ db_open = FALSE
    /\ scored = {}
    /\ clock = StartTime
    /\ batches = <<>>
    /\ jitters = 0
    /\ fetch_calls = [c \in 1..MaxCands |-> 0]
    /\ cutoffs = {}

\* entry: `if not subreddits: return []` (async only), init_subreddits_db()
Start ==
    /\ pc = "start"
    /\ IF mode # "stream" /\ subreddits = <<>>
         THEN pc' = "returned_empty" /\ UNCHANGED db_open
         ELSE pc' = "loop" /\ db_open' = TRUE
    /\ UNCHANGED <<mode, query, subreddits, i, batch, batch_num, task, posts, pending,
                   db, scored, clock, batches, jitters, fetch_calls, cutoffs>>
    /\ UNCHANGED <<ddVars, agVars, exVars, outVars, grVars, qVars, anVars>>

\* `while i < len(subreddits)` is true: draw batch_size, slice, create the tasks
StartBatch ==
    /\ pc = "loop"
    /\ i < Len(subreddits)
    /\ \E batch_size \in BatchMin..BatchMax :
         LET last == Min2(i + batch_size, Len(subreddits))
             slice == SubSeq(subreddits, i + 1, last)
         IN /\ batch' = slice
            /\ batches' = Append(batches, <<i + 1, last>>)
            /\ IF mode = "stream"
                 THEN pc' = "fetch" /\ UNCHANGED task
                 ELSE /\ pc' = "gather"
                      /\ task' = [c \in DOMAIN task |->
                            IF \E k \in 1..Len(slice) : slice[k] = c
                            THEN "scheduled" ELSE task[c]]
    /\ UNCHANGED <<mode, query, subreddits, i, batch_num, posts, pending, db, db_open,
                   scored, clock, jitters, fetch_calls, cutoffs>>
    /\ UNCHANGED <<ddVars, agVars, exVars, outVars, grVars, qVars, anVars>>

\* `while i < len(subreddits)` is false
LoopExit ==
    /\ pc = "loop"
    /\ ~(i < Len(subreddits))
    /\ pc' = "rank"
    /\ UNCHANGED <<mode, query, subreddits, i, batch, batch_num, task, posts, pending,
                   db, db_open, scored, clock, batches, jitters, fetch_calls, cutoffs>>
    /\ UNCHANGED <<ddVars, agVars, exVars, outVars, grVars, qVars, anVars>>

\* the candidates of the batch whose task is at `st`, and the first of them
BatchAt(st) == { k \in 1..Len(batch) : task[batch[k]] = st }
FirstAt(st) == batch[CHOOSE k \in BatchAt(st) : \A j \in BatchAt(st) : k <= j]

\* the row computed from the posts of candidate c at time `now`
Calculated(c, p, now) ==
    /\ pending' = (c :> CalculateRow(p, query, now)) @@ pending
    /\ cutoffs' = cutoffs \cup {Cutoff(now)}

\* a task is over: its locals `posts` and the computed row are gone
TaskEnds(c) ==
    /\ posts' = [posts EXCEPT ![c] = 0]
    /\ pending' = [d \in DOMAIN pending \ {c} |-> pending[d]]

\* stream: `posts = await process_subreddit_func(subreddit)` is issued for the
\* next candidate of the `for subreddit in batch` loop
StreamFetchStart ==
    /\ pc = "fetch"
    /\ BatchAt("fetching") = {}
    /\ BatchAt("none") # {}
    /\ LET c == FirstAt("none")
       IN /\ task' = [task EXCEPT ![c] = "fetching"]
          /\ fetch_calls' = [fetch_calls EXCEPT ![c] = @ + 1]
    /\ UNCHANGED <<mode, query, subreddits, pc, i, batch, batch_num, posts, pending,
                   db, db_open, scored, clock, batches, jitters, cutoffs>>
    /\ UNCHANGED <<ddVars, agVars, exVars, outVars, grVars, qVars, anVars>>

\* stream: the awaited fetch returns posts, and the coroutine
\* calculate_and_insert_subreddit_score(...) is appended to batch_tasks unstarted
StreamFetchReturns ==
    /\ pc = "fetch"
    /\ BatchAt("fetching") # {}
    /\ LET c == FirstAt("fetching")
       IN \E p \in 1..Len(PostLists) :
            /\ posts' = [posts EXCEPT ![c] = p]
            /\ task' = [task EXCEPT ![c] = "ready"]
    /\ UNCHANGED <<mode, query, subreddits, pc, i, batch, batch_num, pending,
                   db, db_open, scored, clock, batches, jitters, fetch_calls, cutoffs>>
    /\ UNCHANGED <<ddVars, agVars, exVars, outVars, grVars, qVars, anVars>>

\* stream: the awaited fetch raises; `except Exception` skips the candidate
StreamFetchRaises ==
    /\ pc = "fetch"
    /\ BatchAt("fetching") # {}
    /\ LET c == FirstAt("fetching")
       IN task' = [task EXCEPT ![c] = "failed"]
    /\ pc' = PcAfterTaskException(pc)
    /\ UNCHANGED <<mode, query, subreddits, i, batch, batch_num, posts, pending,
                   db, db_open, scored, clock, batches, jitters, fetch_calls, cutoffs>>
    /\ UNCHANGED <<ddVars, agVars, exVars, outVars, grVars, qVars, anVars>>

\* stream: the for loop is over; `await asyncio.gather(*batch_tasks)`
StreamGather ==
    /\ pc = "fetch"
    /\ BatchAt("fetching") = {}
    /\ BatchAt("none") = {}
    /\ task' = [c \in DOMAIN task |-> IF task[c] = "ready" THEN "scheduled" ELSE task[c]]
    /\ pc' = "gather"
    /\ UNCHANGED <<mode, query, subreddits, i, batch, batch_num, posts, pending,
                   db, db_open, scored, clock, batches, jitters, fetch_calls, cutoffs>>
    /\ UNCHANGED <<ddVars, agVars, exVars, outVars, grVars, qVars, anVars>>

\* the event loop runs the next scheduled task up to its first suspension:
\*   async_api  - process_subreddit awaits the API fetch
\*   async_html - get_relevant_posts_from_subreddit(..., max_pages=1) raises
\*                TypeError (the function takes no max_pages); it is caught
\*   stream     - calculate_and_insert_subreddit_score computes the row and
\*                awaits insert_subreddit
TaskRun ==
    /\ pc = "gather"
    /\ BatchAt("scheduled") # {}
    /\ LET c == FirstAt("scheduled")
       IN CASE mode = "async_api" ->
                 /\ task' = [task EXCEPT ![c] = "fetching"]
                 /\ fetch_calls' = [fetch_calls EXCEPT ![c] = @ + 1]
                 /\ UNCHANGED <<pc, pending, cutoffs>>
            [] mode = "async_html" ->
                 /\ task' = [task EXCEPT ![c] = "failed"]
                 /\ fetch_calls' = [fetch_calls EXCEPT ![c] = @ + 1]
                 /\ pc' = PcAfterTaskException(pc)
                 /\ UNCHANGED <<pending, cutoffs>>
            [] mode = "stream" ->
                 /\ task' = [task EXCEPT ![c] = "inserting"]
                 /\ Calculated(c, posts[c], clock)
                 /\ UNCHANGED <<pc, fetch_calls>>
    /\ UNCHANGED <<mode, query, subreddits, i, batch, batch_num, posts,
                   db, db_open, scored, clock, batches, jitters>>
    /\ UNCHANGED <<ddVars, agVars, exVars, outVars, grVars, qVars, anVars>>

\* async_api: a pending fetch returns posts; the task goes straight on into
\* calculate_and_insert_subreddit_score up to `await insert_subreddit`
FetchReturns ==
    /\ pc = "gather"
    /\ BatchAt("scheduled") = {}
    /\ \E k \in BatchAt("fetching"), p \in 1..Len(PostLists) :
         LET c == batch[k]
         IN /\ posts' = [posts EXCEPT ![c] = p]
            /\ Calculated(c, p, clock)
            /\ task' = [task EXCEPT ![c] = "inserting"]
    /\ UNCHANGED <<mode, query, subreddits, pc, i, batch, batch_num,
                   db, db_open, scored, clock, batches, jitters, fetch_calls>>
    /\ UNCHANGED <<ddVars, agVars, exVars, outVars, grVars, qVars, anVars>>

\* async_api: a pending fetch raises; process_subreddit's except swallows it
FetchRaises ==
    /\ pc = "gather"
    /\ BatchAt("scheduled") = {}
    /\ \E k \in BatchAt("fetching") :
         task' = [task EXCEPT ![batch[k]] = "failed"]
    /\ pc' = PcAfterTaskException(pc)
    /\ UNCHANGED <<mode, query, subreddits, i, batch, batch_num, posts, pending,
                   db, db_open, scored, clock, batches, jitters, fetch_calls, cutoffs>>
    /\ UNCHANGED <<ddVars, agVars, exVars, outVars, grVars, qVars, anVars>>

\* insert_subreddit commits the row
InsertDone ==
    /\ pc = "gather"
    /\ BatchAt("scheduled") = {}
    /\ \E k \in BatchAt("inserting") :
         LET c == batch[k]
         IN /\ db' = (c :> pending[c]) @@ db
            /\ task' = [task EXCEPT ![c] = "done"]
            /\ TaskEnds(c)
    /\ UNCHANGED <<mode, query, subreddits, pc, i, batch, batch_num,
                   db_open, scored, clock, batches, jitters, fetch_calls, cutoffs>>
    /\ UNCHANGED <<ddVars, agVars, exVars, outVars, grVars, qVars, anVars>>

\* an exception inside calculate_and_insert_subreddit_score (the insert
\* included) is caught by its own `except Exception`: no row is written
InsertRaises ==
    /\ pc = "gather"
    /\ BatchAt("scheduled") = {}
    /\ \E k \in BatchAt("inserting") :
         /\ task' = [task EXCEPT ![batch[k]] = "failed"]
         /\ TaskEnds(batch[k])
    /\ pc' = PcAfterTaskException(pc)
    /\ UNCHANGED <<mode, query, subreddits, i, batch, batch_num,
                   db, db_open, scored, clock, batches, jitters, fetch_calls, cutoffs>>
    /\ UNCHANGED <<ddVars, agVars, exVars, outVars, grVars, qVars, anVars>>

\* asyncio.gather returns: i += len(batch); batch_num += 1; jitter or loop
GatherDone ==
    /\ pc = "gather"
    /\ \A k \in 1..Len(batch) : task[batch[k]] \in {"done", "failed"}
    /\ i' = NextI(i, batch)
    /\ batch_num' = batch_num + 1
    /\ pc' = IF NeedJitter(NextI(i, batch), Len(subreddits)) THEN "jitter" ELSE "loop"
    /\ UNCHANGED <<mode, query, subreddits, batch, task, posts, pending,
                   db, db_open, scored, clock, batches, jitters, fetch_calls, cutoffs>>
    /\ UNCHANGED <<ddVars, agVars, exVars, outVars, grVars, qVars, anVars>>

\* await add_jitter(min_delay=1.5, max_delay=3.5)
Jitter ==
    /\ pc = "jitter"
    /\ \E delay \in JitterDelays : clock' = clock + delay
    /\ jitters' = jitters + 1
    /\ pc' = "loop"
    /\ UNCHANGED <<mode, query, subreddits, i, batch, batch_num, task, posts, pending,
                   db, db_open, scored, batches, fetch_calls, cutoffs>>
    /\ UNCHANGED <<ddVars, agVars, exVars, outVars, grVars, qVars, anVars>>

---------------------------------------------------------------------------
(* Ranker *)

TopKept == 20
TopPayload == 5

SetMax(S) == CHOOSE m \in S : \A x \in S : x <= m

\* the same query without its WHERE clause
select_all_names(table, floor) == DOMAIN table

\* select_subreddits_by_frequency: WHERE frequency_score >= ?
select_subreddits_by_frequency(table, floor) ==
    { c \in DOMAIN table : table[c].frequency >= floor }

\* the division of the last line of normalize_map without the `if not max_val`
\* guard before it
normalize_map_unguarded(v, max_val) == [num |-> v, den |-> max_val]

\* normalize_map, one value: v / max_val as a fraction, 0.0 when max_val is 0
normalize_map(v, max_val) ==
    IF max_val = 0 THEN [num |-> 0, den |-> 1] ELSE [num |-> v, den |-> max_val]

\* relevance_score = (0.4*nf + 0.3*nfr + 0.3*ne) * 100, as a fraction whose
\* denominator is kept positive
RelevanceScore(nf, nfr, ne) ==
    LET n == 40 * nf.num * nfr.den * ne.den + 30 * nfr.num * nf.den * ne.den
               + 30 * ne.num * nf.den * nfr.den
        d == nf.den * nfr.den * ne.den
    IN IF d < 0 THEN [null |-> FALSE, num |-> 0 - n, den |-> 0 - d]
                ELSE [null |-> FALSE, num |-> n, den |-> d]

\* an ordering that puts NULL first
RanksBeforeNullFirst(a, b) == a.null \/ (~b.null /\ a.num * b.den >= b.num * a.den)

\* ORDER BY relevance_score DESC: a may stand before b (NULL sorts last)
RanksBefore(a, b) == b.null \/ (~a.null /\ a.num * b.den >= b.num * a.den)

\* the names a prefix of length k of the ordered rows can hold: the rows that
\* stand strictly before the k-th row, and as many of the rows tied with it
\* as fill the prefix (SQLite leaves the order of ties open)
TopSets(table, k) ==
    LET D == DOMAIN table
        kk == Min2(k, Cardinality(D))
        Strict(c) == { d \in D : ~RanksBefore(table[c].relevance, table[d].relevance) }
        Geq(c) == { d \in D : RanksBefore(table[d].relevance, table[c].relevance) }
    IN IF kk = 0 THEN {{}}
       ELSE LET t == CHOOSE c \in D :
                        Cardinality(Strict(c)) < kk /\ kk <= Cardinality(Geq(c))
                Above == Strict(t)
                Ties == Geq(t) \ Above
            IN { Above \cup S : S \in { X \in SUBSET Ties :
                                          Cardinality(X) = kk - Cardinality(Above) } }

\* rows = select_subreddits_by_frequency(...); normalize; update_relevance_score
RankScore ==
    /\ pc = "rank"
    /\ LET rows == select_subreddits_by_frequency(db, MinFrequency)
           max_freq == SetMax({ db[c].frequency : c \in rows })
           max_fresh == SetMax({ db[c].freshness : c \in rows })
           max_eng == SetMax({ db[c].engagement : c \in rows })
       IN IF rows = {}
          THEN \* async: `await db_conn.close(); return []`; stream: `if rows:` skipped
               /\ IF mode = "stream"
                    THEN pc' = "saving" /\ UNCHANGED db_open
                    ELSE pc' = "returned_empty" /\ db_open' = FALSE
               /\ UNCHANGED <<db, scored>>
          ELSE /\ db' = [c \in DOMAIN db |->
                        IF c \in rows
                        THEN [db[c] EXCEPT !.relevance =
                               RelevanceScore(normalize_map(db[c].frequency, max_freq),
                                              normalize_map(db[c].freshness, max_fresh),
                                              normalize_map(db[c].engagement, max_eng))]
                        ELSE db[c]]
               /\ scored' = rows
               /\ pc' = "retain"
               /\ UNCHANGED db_open
    /\ UNCHANGED <<mode, query, subreddits, i, batch, batch_num, task, posts, pending,
                   clock, batches, jitters, fetch_calls, cutoffs>>
    /\ UNCHANGED <<ddVars, agVars, exVars, outVars, grVars, qVars, anVars>>

\* an UPDATE that leaves the payload in place
update_json_response_kept(row) == row

\* update_json_response_null: SET json_response = NULL
update_json_response_null(row) == [row EXCEPT !.json_response = 0]

\* all_rows = select_all_subreddits_ordered; top_20 = all_rows[:20];
\* delete_subreddits_by_names(all_rows[20:]); update_json_response_null for
\* top_20[5:]
RankRetain ==
    /\ pc = "retain"
    /\ \E top_20 \in TopSets(db, TopKept) :
         \E top_5 \in TopSets(db, TopPayload) :
            /\ top_5 \subseteq top_20
            /\ db' = [c \in top_20 |->
                        IF c \in top_5 THEN db[c]
                        ELSE update_json_response_null(db[c])]
    /\ pc' = "saving"
    /\ UNCHANGED <<mode, query, subreddits, i, batch, batch_num, task, posts, pending,
                   db_open, scored, clock, batches, jitters, fetch_calls, cutoffs>>
    /\ UNCHANGED <<ddVars, agVars, exVars, outVars, grVars, qVars, anVars>>

(* Corpus materialization and hand-over: process_json_responses *)

\* select_json_responses: WHERE json_response IS NOT NULL, then `if not json_resp`
select_json_responses(table) == { c \in DOMAIN table : table[c].json_response # 0 }

\* what the caller receives: the stream rebinds db_conn to the connection
\* migrate_to_disk returned, score_and_rank_subreddits returns the connection
\* it passed in
HandedOver(m) == IF m = "stream" THEN "disk" ELSE "memory"

\* process_json_responses(db_conn, query) on the connection the Ranker left:
\* insert the items of every payload, drop the payload column, back the store
\* up to disk and close the in-memory connection; then the stream yields
\* _internal_db_conn, or score_and_rank_subreddits returns
ProcessJsonResponses ==
    /\ pc = "saving"
    /\ posts_table' = select_json_responses(db)
    /\ db' = [c \in DOMAIN db |-> [db[c] EXCEPT !.json_response = 0]]
    /\ db_open' = FALSE
    /\ disk_open' = TRUE
    /\ handed' = HandedOver(mode)
    /\ pc' = "returned"
    /\ UNCHANGED <<mode, query, subreddits, i, batch, batch_num, task, posts, pending,
                   scored, clock, batches, jitters, fetch_calls, cutoffs>>
    /\ UNCHANGED <<ddVars, agVars, exVars, grVars, qVars, anVars>>

\* score_and_rank_subreddits_async returned []: process_json_responses([], query)
\* fails at `db.execute` in select_json_responses, and the AttributeError
\* leaves score_and_rank_subreddits
ProcessJsonResponsesOnList ==
    /\ pc = "returned_empty"
    /\ handed' = "raised"
    /\ pc' = "raised"
    /\ UNCHANGED <<mode, query, subreddits, i, batch, batch_num, task, posts, pending,
                   db, db_open, scored, clock, batches, jitters, fetch_calls, cutoffs,
                   posts_table, disk_open>>
    /\ UNCHANGED <<ddVars, agVars, exVars, grVars, qVars, anVars>>

\* The store as the Evidence Collector can leave it for the Ranker: n rows
\* whose metrics follow one of a few shapes.  engagement sums int(post.ups),
\* which the collector does not clamp, so it can be negative.
MaxRows == 22

RankShapes == {"spread", "tied", "floor", "downvoted", "alldown", "oneout"}

RankFrequency(shape, c) ==
    CASE shape = "spread" -> MinFrequency + c
      [] shape = "tied" -> MinFrequency + (c % 3)
      [] shape = "floor" -> c % 5
      [] shape = "downvoted" -> MinFrequency + (c % 2)
      [] shape = "alldown" -> MinFrequency
      [] shape = "oneout" -> IF c = 1 THEN 0 ELSE MinFrequency + c

RankFreshness(shape, c) ==
    CASE shape = "spread" -> c % 4
      [] shape = "tied" -> 0
      [] shape = "floor" -> IF c % 5 = 0 THEN 0 ELSE c % 2
      [] shape = "downvoted" -> 1
      [] shape = "alldown" -> c % 2
      [] shape = "oneout" -> c % 3

RankEngagement(shape, c) ==
    CASE shape = "spread" -> (7 * c) % 23
      [] shape = "tied" -> c % 3
      [] shape = "floor" -> IF c % 5 = 0 THEN 0 ELSE c
      [] shape = "downvoted" -> 4 - c
      [] shape = "alldown" -> 0 - c
      [] shape = "oneout" -> IF c = 1 THEN 99 ELSE c

\* json_response is None exactly for a candidate without posts, whose three
\* metrics are then 0
RankRow(shape, c) ==
    [ json_response |->
          IF RankFrequency(shape, c) = 0 /\ RankEngagement(shape, c) = 0 THEN 0 ELSE c,
      engagement |-> RankEngagement(shape, c),
      freshness |-> RankFreshness(shape, c),
      frequency |-> RankFrequency(shape, c),
      relevance |-> [null |-> TRUE, num |-> 0, den |-> 1] ]

RankTable(shape, n) == [c \in 1..n |-> RankRow(shape, c)]

\* the state at `rows = await select_subreddits_by_frequency(...)`
InitRank ==
    /\ mode \in {"async_api", "stream"}
    /\ query = TeslaCap
    /\ \E n \in 0..MaxRows, shape \in RankShapes :
          /\ subreddits = [k \in 1..n |-> k]
          /\ i = n
          /\ db = RankTable(shape, n)
    /\ pc = "rank"
    /\ batch = <<>>
    /\ batch_num = 1
    /\ task = <<>>
    /\ posts = <<>>
    /\ pending = <<>>
    /\ db_open = TRUE
    /\ scored = {}
    /\ clock = StartTime
    /\ batches = <<>>
    /\ jitters = 0
    /\ fetch_calls = <<>>
    /\ cutoffs = {}

---------------------------------------------------------------------------
(* Extractor: run_parallel_extraction / parallel_extraction_stream *)

batch_size == 25
MaxPosts == 51

\* batches = [all_posts[i:i + batch_size] for i in range(0, len(all_posts), batch_size)]
\* with only the full slices kept
BatchSlicesFullOnly(n, size) ==
    [k \in 1..(n \div size) |-> <<(k - 1) * size + 1, k * size>>]

\* batches = [all_posts[i:i + batch_size] for i in range(0, len(all_posts), batch_size)]
BatchSlices(n, size) ==
    [k \in 1..((n + size - 1) \div size) |->
        <<(k - 1) * size + 1, Min2(k * size, n)>>]

\* canonical names and triplets an extraction call can report
Triplet(s, r, o, e) == [subject |-> s, relationship |-> r, object |-> o, evidence |-> e]
T1 == Triplet("Musk", "ceo", "Tesla Inc", "e1")
T2 == Triplet("Elon Musk", "founder", "Tesla", "e2")
T3 == Triplet("Tesla", "competitor", "Rivian", "e3")

PostAnalysis(id, flag, why, ts, url) ==
    [post_id |-> id, has_business_info |-> flag, justification |-> why,
     triplets |-> ts, post_url |-> url]

\* what client.create(response_model=BatchExtraction, ...) can return for a
\* batch: nothing, one analysed post, or two
Answers == {"A0", "A1", "A2"}
LLMResults(slice, answer) ==
    CASE answer = "A0" -> <<>>
      [] answer = "A1" -> << PostAnalysis(slice[1], TRUE, "ceo named", <<T1>>, "url") >>
      [] answer = "A2" -> << PostAnalysis(slice[1], TRUE, "two facts", <<T2, T3>>, "url"),
                             PostAnalysis(slice[2], FALSE, "rant", <<>>, "None") >>

\* the placeholder of the except branch of get_llm_triplets
ErrorResults(slice) ==
    [k \in 1..(slice[2] - slice[1] + 1) |->
        PostAnalysis(slice[1] + k - 1, FALSE, "Error", <<>>, "None")]

\* where get_llm_triplets can fail, and what becomes of the failure: the
\* except branch prints end_llm - start_llm, and start_llm is bound only after
\* the client was constructed
Failures == {"construct", "create"}

\* every failure handled by the placeholder
OutcomeOfFailureHandled(where) == "error"

OutcomeOfFailure(where) == IF where = "construct" THEN "raised" ELSE "error"

Outcomes == Answers \cup { OutcomeOfFailure(w) : w \in Failures }

\* BatchExtraction.results of batch b
BatchResults(b) ==
    IF results[b] \in Answers THEN LLMResults(post_batches[b], results[b])
    ELSE IF results[b] = "error" THEN ErrorResults(post_batches[b])
    ELSE <<>>

RECURSIVE Flatten(_)
Flatten(ss) == IF ss = <<>> THEN <<>> ELSE Head(ss) \o Flatten(Tail(ss))

\* all_extractions: gather keeps the order of the batches, as_completed the
\* order of completion
ExtractionOrder ==
    IF x_mode = "run" THEN [k \in 1..Len(post_batches) |-> k] ELSE completed
AllExtractions == Flatten([k \in 1..Len(ExtractionOrder) |-> BatchResults(ExtractionOrder[k])])

TripletsOf(extractions) ==
    Flatten([k \in 1..Len(extractions) |-> extractions[k].triplets])

\* canonical_names_set
CanonicalNamesSet(extractions) ==
    LET ts == TripletsOf(extractions)
    IN { ts[k].subject : k \in 1..Len(ts) } \cup { ts[k].object : k \in 1..Len(ts) }

(* Resolver: resolve_entity_names *)

Group(master, variants) == [master_name |-> master, variants |-> variants]

\* what client.create(response_model=EntityResolutionResult, ...) can return
Clusterings == {
    \* no group at all
    << >>,
    \* two clean groups
    << Group("Tesla", <<"Tesla Inc", "Tesla">>), Group("Elon Musk", <<"Musk", "Elon Musk">>) >>,
    \* a name placed in two groups
    << Group("Tesla", <<"Tesla Inc">>), Group("Rivian", <<"Tesla Inc">>) >>,
    \* a master name listed as a variant of a later group
    << Group("Tesla", <<"Tesla Inc">>), Group("Tesla Motors", <<"Tesla">>) >>,
    \* a group whose master name is the empty string
    << Group("", <<"Musk">>) >> }

Range(f) == { f[k] : k \in DOMAIN f }
EmptyMapping == [x \in {} |-> x]

\* for variant in group.variants: name_mapping[variant] = group.master_name
\* name_mapping[group.master_name] = group.master_name
ApplyGroup(mp, g) ==
    [x \in DOMAIN mp \cup Range(g.variants) \cup {g.master_name} |->
        IF x = g.master_name \/ x \in Range(g.variants) THEN g.master_name ELSE mp[x]]

RECURSIVE BuildMapping(_, _)
BuildMapping(mp, groups) ==
    IF groups = <<>> THEN mp ELSE BuildMapping(ApplyGroup(mp, Head(groups)), Tail(groups))

\* for name in canonical_names: if name not in name_mapping: ...[name] = name
FillIdentity(mp, names) ==
    [x \in DOMAIN mp \cup names |-> IF x \in DOMAIN mp THEN mp[x] ELSE x]

\* a resolver that asks the model about an empty list too
ReturnsEarlyNever(names) == FALSE

\* if not canonical_names: return {}
ReturnsEarly(names) == names = {}

\* the ways resolve_entity_names can end: the early return, a failure in its
\* try block, or a clustering result
Ended(how, groups) == [how |-> how, groups |-> groups]
Resolutions ==
    { Ended("returned", g) : g \in Clusterings }
        \cup { Ended(w, <<>>) : w \in Failures } \cup { Ended("skipped", <<>>) }

\* resolve_entity_names(canonical_names), ending as `end`
resolve_entity_names(names, end) ==
    IF end.how = "skipped" THEN EmptyMapping
    ELSE IF end.how \in Failures THEN [x \in names |-> x]
    ELSE FillIdentity(BuildMapping(EmptyMapping, end.groups), names)

\* name_mapping.get(name, name) skipped, the extracted name kept
ResolveKeepsRaw(mp, name) == name

\* name_mapping.get(name, name)
Resolve(mp, name) == IF name \in DOMAIN mp THEN mp[name] ELSE name

\* format_resolved_extractions and the tuples of persist_triplets_to_db
TripletRow(extraction, t, mp) ==
    [subject |-> Resolve(mp, t.subject), relationship |-> t.relationship,
     object |-> Resolve(mp, t.object), evidence |-> t.evidence,
     post_id |-> extraction.post_id, post_url |-> extraction.post_url,
     justification |-> extraction.justification]

TripletsBatch(extractions, mp) ==
    Flatten([k \in 1..Len(extractions) |->
                [j \in 1..Len(extractions[k].triplets) |->
                    TripletRow(extractions[k], extractions[k].triplets[j], mp)]])

\* an event parallel_extraction_stream yields, and a call it makes
Event(stage, message, done, total) ==
    [kind |-> "event", stage |-> stage, message |-> message,
     completed |-> done, total |-> total]
Call(name) ==
    [kind |-> "call", stage |-> name, message |-> "", completed |-> 0, total |-> 0]
Yielded(events) == IF x_mode = "stream" THEN events ELSE <<>>
BatchEvents == SelectSeq(x_trace, LAMBDA e : e.stage = "batch_completed")

\* a counter that is set rather than incremented
CompletedBatchesStuck(n) == 1

\* completed_batches += 1
CompletedBatches(n) == n + 1

InitExtract ==
    /\ x_mode \in {"run", "stream"}
    /\ x_pc = "start"
    /\ all_posts \in { [k \in 1..n |-> k] : n \in 0..MaxPosts }
    /\ post_batches = <<>>
    /\ results = <<>>
    /\ completed = <<>>
    /\ inference_calls = <<>>
    /\ canonical_names = {}
    /\ resolution = Ended("none", <<>>)
    /\ resolve_calls = 0
    /\ name_mapping = EmptyMapping
    /\ triplet_rows = <<>>
    /\ x_trace = <<>>

\* all_posts fetched, batches formed, one get_llm_triplets_async per batch
CreateBatches ==
    /\ x_pc = "start"
    /\ post_batches' = BatchSlices(Len(all_posts), batch_size)
    /\ results' = [b \in DOMAIN post_batches' |-> "pending"]
    /\ inference_calls' = [b \in DOMAIN post_batches' |-> 0]
    /\ x_pc' = "extracting"
    /\ x_trace' = Yielded(<< Event("extracting", "Extracting Entities", 0, 0) >>)
    /\ UNCHANGED <<x_mode, all_posts, completed, canonical_names, resolution,
                   resolve_calls, name_mapping, triplet_rows>>
    /\ UNCHANGED <<ddVars, agVars, colVars, outVars, grVars, qVars, anVars>>

\* the thread of one batch runs get_llm_triplets to its end; the stream, as
\* long as no batch has raised, takes the result from as_completed and yields
\* batch_completed
BatchInference ==
    /\ \E b \in DOMAIN results :
         /\ results[b] = "pending"
         /\ \E o \in Outcomes :
              /\ results' = [results EXCEPT ![b] = o]
              /\ x_trace' =
                    IF /\ x_pc = "extracting" /\ o # "raised"
                       /\ \A d \in DOMAIN results : results[d] # "raised"
                    THEN x_trace \o Yielded(<< Event("batch_completed",
                                                    "Batch processing completed",
                                                    CompletedBatches(Len(BatchEvents)),
                                                    Len(post_batches)) >>)
                    ELSE x_trace
         /\ inference_calls' = [inference_calls EXCEPT ![b] = @ + 1]
         /\ completed' = Append(completed, b)
    /\ UNCHANGED <<x_mode, x_pc, all_posts, post_batches, canonical_names, resolution,
                   resolve_calls, name_mapping, triplet_rows>>
    /\ UNCHANGED <<ddVars, agVars, colVars, outVars, grVars, qVars, anVars>>

\* the exception of a batch leaves gather / `await coro` and the coroutine
ExtractionRaises ==
    /\ x_pc = "extracting"
    /\ \E b \in DOMAIN results : results[b] = "raised"
    /\ x_pc' = "aborted"
    /\ UNCHANGED <<x_mode, all_posts, post_batches, results, completed, inference_calls,
                   canonical_names, resolution, resolve_calls, name_mapping, triplet_rows,
                   x_trace>>
    /\ UNCHANGED <<ddVars, agVars, colVars, outVars, grVars, qVars, anVars>>

\* every batch returned: collect the names, resolve_entity_names_async
ResolveNames ==
    /\ x_pc = "extracting"
    /\ \A b \in DOMAIN results : results[b] \notin {"pending", "raised"}
    /\ canonical_names' = CanonicalNamesSet(AllExtractions)
    /\ \E end \in Resolutions :
         /\ end.how = "skipped" <=> ReturnsEarly(canonical_names')
         /\ resolution' = end
         /\ resolve_calls' = IF end.how = "skipped" THEN resolve_calls ELSE resolve_calls + 1
         /\ name_mapping' = resolve_entity_names(canonical_names', end)
         /\ x_trace' = x_trace
               \o Yielded(<< Event("building_entities", "Building list", 0, 0) >>)
               \o (IF end.how = "skipped" THEN <<>> ELSE << Call("resolve") >>)
    /\ x_pc' = "resolved"
    /\ UNCHANGED <<x_mode, all_posts, post_batches, results, completed, inference_calls,
                   triplet_rows>>
    /\ UNCHANGED <<ddVars, agVars, colVars, outVars, grVars, qVars, anVars>>

\* format_resolved_extractions, persist_triplets_to_db
PersistTriplets ==
    /\ x_pc = "resolved"
    /\ triplet_rows' = triplet_rows \o TripletsBatch(AllExtractions, name_mapping)
    /\ x_trace' = x_trace
          \o Yielded(<< Event("storing", "Storing Entities & Relationships", 0, 0) >>)
          \o (IF TripletsBatch(AllExtractions, name_mapping) = <<>> THEN <<>>
              ELSE << Call("insert") >>)
    /\ x_pc' = "done"
    /\ UNCHANGED <<x_mode, all_posts, post_batches, results, completed, inference_calls,
                   canonical_names, resolution, resolve_calls, name_mapping>>
    /\ UNCHANGED <<ddVars, agVars, colVars, outVars, grVars, qVars, anVars>>

---------------------------------------------------------------------------
(* The force-layout view of the triplet store: get_force_graph *)

\* entity names, in the ascending order of Python's string comparison
GraphEntities == <<"A", "B", "C">>
Rank(e) == CHOOSE k \in 1..Len(GraphEntities) : GraphEntities[k] = e
Less(a, b) == Rank(a) < Rank(b)
MinName(a, b) == IF Less(b, a) THEN b ELSE a
MaxName(a, b) == IF Less(b, a) THEN a ELSE b

\* a row of SELECT subject, relationship, object, evidence, post_url; the
\* empty string stands for both NULL and '', which `if evidence:` treats alike
GraphRow(subject, relationship, obj, evidence, post_url) ==
    [subject |-> subject, relationship |-> relationship, object |-> obj,
     evidence |-> evidence, post_url |-> post_url]

GraphPairs == { <<"A", "B">>, <<"B", "A">>, <<"A", "A">>, <<"B", "C">> }
GraphDetails ==
    { [relationship |-> "uses", evidence |-> "e1", post_url |-> "u1"],
      [relationship |-> "owns", evidence |-> "",   post_url |-> "u2"],
      [relationship |-> "uses", evidence |-> "e2", post_url |-> ""] }
GraphRowCatalog ==
    { GraphRow(p[1], d.relationship, p[2], d.evidence, d.post_url) :
        p \in GraphPairs, d \in GraphDetails }

MaxGraphRows == 3

\* 0.2, in tenths
Curve == 2

\* an entity counted once per triplet, whichever ends it is
TouchesOnce(row, e) == IF row.subject = e \/ row.object = e THEN 1 ELSE 0

\* entity_counts[subject] += 1; entity_counts[obj] += 1
Touches(row, e) ==
    (IF row.subject = e THEN 1 ELSE 0) + (IF row.object = e THEN 1 ELSE 0)

RECURSIVE CountOf(_, _)
CountOf(rows, e) ==
    IF rows = <<>> THEN 0 ELSE Touches(Head(rows), e) + CountOf(Tail(rows), e)

entity_counts(rows) ==
    [e \in { rows[k].subject : k \in 1..Len(rows) }
           \cup { rows[k].object : k \in 1..Len(rows) } |-> CountOf(rows, e)]

\* a key that forgets the direction
PairKeyUnordered(subject, obj) == <<MinName(subject, obj), MaxName(subject, obj)>>

\* pair = (subject, obj)
PairKey(subject, obj) == <<subject, obj>>

RowsOfPair(rows, pair) ==
    SelectSeq(rows, LAMBDA r : PairKey(r.subject, r.object) = pair)

RECURSIVE Evidences(_)
Evidences(rows) ==
    IF rows = <<>> THEN <<>>
    ELSE (IF Head(rows).evidence # "" THEN << Head(rows).evidence >> ELSE <<>>)
         \o Evidences(Tail(rows))

\* relationships is a set, evidences a list in row order, post_urls the list
\* of a set, whose order Python does not fix: kept as the set
link_aggregates(rows) ==
    [pair \in { PairKey(rows[k].subject, rows[k].object) : k \in 1..Len(rows) } |->
        LET mine == RowsOfPair(rows, pair)
        IN [relationships |-> { mine[k].relationship : k \in 1..Len(mine) },
            evidences |-> Evidences(mine),
            post_urls |-> { mine[k].post_url : k \in 1..Len(mine) } \ {""}]]

bidirectional_pairs(aggregates) ==
    { <<MinName(p[1], p[2]), MaxName(p[1], p[2])>> :
        p \in { q \in DOMAIN aggregates : <<q[2], q[1]>> \in DOMAIN aggregates } }

Curvature(source, target, bidirectional) ==
    IF <<MinName(source, target), MaxName(source, target)>> \in bidirectional
    THEN (IF Less(source, target) THEN Curve ELSE 0 - Curve)
    ELSE 0

\* all ordered pairs, sorted by (source, target)
SortedPairs ==
    LET n == Len(GraphEntities)
    IN [k \in 1..(n * n) |->
            <<GraphEntities[((k - 1) \div n) + 1], GraphEntities[((k - 1) % n) + 1]>>]

GraphLink(pair, data, bidirectional) ==
    [source |-> pair[1], target |-> pair[2],
     relationships |-> data.relationships,
     evidences |-> data.evidences,
     post_urls |-> data.post_urls,
     curvature |-> Curvature(pair[1], pair[2], bidirectional)]

\* links, sorted by (source, target)
GraphLinks(rows) ==
    LET aggregates == link_aggregates(rows)
        bidirectional == bidirectional_pairs(aggregates)
        keys == SelectSeq(SortedPairs, LAMBDA p : p \in DOMAIN aggregates)
    IN [k \in 1..Len(keys) |-> GraphLink(keys[k], aggregates[keys[k]], bidirectional)]

\* nodes, sorted by id; the colour group, a hash of the name, is left out
GraphNodes(rows) ==
    LET counts == entity_counts(rows)
        names == SelectSeq(GraphEntities, LAMBDA e : e \in DOMAIN counts)
    IN [k \in 1..Len(names) |-> [id |-> names[k], name |-> names[k], val |-> counts[names[k]]]]

InitGraph ==
    /\ g_pc = "call"
    /\ g_rows \in UNION { [1..n -> GraphRowCatalog] : n \in 0..MaxGraphRows }
    /\ nodes = <<>>
    /\ links = <<>>

GetForceGraph ==
    /\ g_pc = "call"
    /\ nodes' = GraphNodes(g_rows)
    /\ links' = GraphLinks(g_rows)
    /\ g_pc' = "returned"
    /\ UNCHANGED g_rows
    /\ UNCHANGED <<ddVars, agVars, colVars, exVars, outVars, qVars, anVars>>

\* any exception of the store becomes HTTP 500
GetForceGraphFails ==
    /\ g_pc = "call"
    /\ g_pc' = "failed"
    /\ UNCHANGED <<g_rows, nodes, links>>
    /\ UNCHANGED <<ddVars, agVars, colVars, exVars, outVars, qVars, anVars>>

---------------------------------------------------------------------------
(* The query of one candidate: get_subreddit *)

DbPaths == {"reports/tesla.db", "subreddits.db"}
DbPath(report) == IF report = "tesla" THEN "reports/tesla.db" ELSE "subreddits.db"

StoredNames == {"tesla", "spacex"}
AskedNames == StoredNames \cup {"Tesla"}
Reports == {"tesla", "other"}

\* a database file: without the subreddits table, or with the table and the
\* candidates in it (a file that does not exist yet is one without the table)
Stores ==
    { [table |-> FALSE, names |-> {}] }
    \cup { [table |-> TRUE, names |-> n] : n \in SUBSET StoredNames }

\* the step of the query at which the store raises, if any
StoreFaults == {"none", "connect", "execute", "fetchone", "close"}

\* an HTTPException that the generic handler would turn into a failure
ExceptException(status) == 500

\* except HTTPException: raise
ExceptHTTPException(status) == status

\* the status get_subreddit answers with
StatusOf(store, name, fault) ==
    IF fault = "connect" THEN 500
    ELSE IF fault = "execute" \/ ~store.table THEN 500
    ELSE IF fault = "fetchone" THEN 500
    ELSE IF fault = "close" THEN 500
    ELSE IF name \notin store.names THEN ExceptHTTPException(404)
    ELSE 200

InitQuery ==
    /\ q_pc = "call"
    /\ q_store \in [DbPaths -> Stores]
    /\ q_before = q_store
    /\ q_name \in AskedNames
    /\ q_report \in Reports
    /\ q_fault \in StoreFaults
    /\ q_status = 0

GetSubreddit ==
    /\ q_pc = "call"
    /\ q_status' = StatusOf(q_store[DbPath(q_report)], q_name, q_fault)
    /\ q_pc' = "answered"
    /\ UNCHANGED <<q_store, q_before, q_name, q_report, q_fault>>
    /\ UNCHANGED <<ddVars, agVars, colVars, exVars, outVars, grVars, anVars>>

---------------------------------------------------------------------------
(* The analysis event stream: event_stream *)

MaxBatchEvents == 2

StageEvent(stage, message) == [stage |-> stage, message |-> message]
Repeat(e, n) == [k \in 1..n |-> e]

\* test_aggregate_subreddits_stream
AggregateEvents ==
    << StageEvent("crawling_reddit", "Crawling Reddit search results..."),
       StageEvent("searching_google", "Searching Google for subreddits..."),
       StageEvent("asking_gemini", "Asking Gemini for recommendations..."),
       StageEvent("aggregating", "Aggregating results from all sources..."),
       StageEvent("aggregated", "aggregated results found"),
       StageEvent("_internal_result", "") >>

\* score_and_rank_subreddits_stream over k batches
RankingEvents(k) ==
    << StageEvent("ranking", "Ranking subreddits based on relevance...") >>
    \o Repeat(StageEvent("processing_batch", "Processing batch"), k)
    \o << StageEvent("saving", "Processing and saving data to database..."),
          StageEvent("_internal_db_conn", "") >>

\* test_score_and_rank_subreddits_streaming: both generators without their
\* internal events, then its own two events
DiscoveryEvents(k) ==
    SelectSeq(AggregateEvents, LAMBDA e : e.stage # "_internal_result")
    \o SelectSeq(RankingEvents(k), LAMBDA e : e.stage # "_internal_db_conn")
    \o << StageEvent("_internal_db_conn", ""),
          StageEvent("discovery_complete", "Community Discovery & ranking complete!") >>

\* parallel_extraction_stream over n batches
ExtractionEvents(n) ==
    << StageEvent("extracting", "Extracting Entities") >>
    \o Repeat(StageEvent("batch_completed", "Batch processing completed"), n)
    \o << StageEvent("building_entities", "Building list"),
          StageEvent("storing", "Storing Entities & Relationships") >>

\* after these events the discovery generator runs no code before its next
\* yield or its end
NothingCanRaiseAfter == {"_internal_db_conn", "discovery_complete"}

\* send_event
SSE(type, data) == [type |-> type, stage |-> data.stage, message |-> data.message]

\* a consumer loop that passes every event on
CapturedNever(stage) == FALSE

\* if stage == "_internal_db_conn": db_conn = ...; continue
Captured(stage) == stage = "_internal_db_conn"

CompleteEvent == SSE("complete", StageEvent("complete", "Full analysis complete!"))
ErrorEvent == SSE("error", StageEvent("error", "Error during analysis"))

InitAnalysis ==
    /\ an_pc = "phase1"
    /\ an_phase1 \in { DiscoveryEvents(k) : k \in 0..MaxBatchEvents }
    /\ an_phase2 \in { ExtractionEvents(n) : n \in 0..MaxBatchEvents }
    /\ an_pos = 0
    /\ an_db_conn = "None"
    /\ an_failed = FALSE
    /\ sent = <<>>

\* one turn of the first async for
Phase1Next ==
    /\ an_pc = "phase1" /\ an_pos < Len(an_phase1)
    /\ LET event_data == an_phase1[an_pos + 1]
       IN IF Captured(event_data.stage)
          THEN an_db_conn' = "conn" /\ sent' = sent
          ELSE /\ an_db_conn' = an_db_conn
               /\ sent' = Append(sent,
                     SSE(IF event_data.stage = "error" THEN "error" ELSE "progress",
                         event_data))
    /\ an_pos' = an_pos + 1
    /\ UNCHANGED <<an_pc, an_phase1, an_phase2, an_failed>>
    /\ UNCHANGED <<ddVars, agVars, colVars, exVars, outVars, grVars, qVars>>

\* the discovery generator raises instead of yielding its next event
Phase1Raises ==
    /\ an_pc = "phase1" /\ 0 < an_pos /\ an_pos < Len(an_phase1)
    /\ an_phase1[an_pos].stage \notin NothingCanRaiseAfter
    /\ sent' = Append(sent, ErrorEvent)
    /\ an_failed' = TRUE
    /\ an_pc' = "closed"
    /\ UNCHANGED <<an_phase1, an_phase2, an_pos, an_db_conn>>
    /\ UNCHANGED <<ddVars, agVars, colVars, exVars, outVars, grVars, qVars>>

\* the discovery generator is exhausted: `if db_conn:` opens the second
\* loop, otherwise the stream completes
Phase1Ends ==
    /\ an_pc = "phase1" /\ an_pos = Len(an_phase1)
    /\ IF an_db_conn # "None"
       THEN an_pc' = "phase2" /\ sent' = sent
       ELSE an_pc' = "closed" /\ sent' = Append(sent, CompleteEvent)
    /\ an_pos' = 0
    /\ UNCHANGED <<an_phase1, an_phase2, an_db_conn, an_failed>>
    /\ UNCHANGED <<ddVars, agVars, colVars, exVars, outVars, grVars, qVars>>

\* one turn of the second async for
Phase2Next ==
    /\ an_pc = "phase2" /\ an_pos < Len(an_phase2)
    /\ sent' = Append(sent, SSE("progress", an_phase2[an_pos + 1]))
    /\ an_pos' = an_pos + 1
    /\ UNCHANGED <<an_pc, an_phase1, an_phase2, an_db_conn, an_failed>>
    /\ UNCHANGED <<ddVars, agVars, colVars, exVars, outVars, grVars, qVars>>

\* parallel_extraction_stream re-raises: before its first event, between two
\* events, or after the last one
Phase2Raises ==
    /\ an_pc = "phase2"
    /\ sent' = Append(sent, ErrorEvent)
    /\ an_failed' = TRUE
    /\ an_pc' = "closed"
    /\ UNCHANGED <<an_phase1, an_phase2, an_pos, an_db_conn>>
    /\ UNCHANGED <<ddVars, agVars, colVars, exVars, outVars, grVars, qVars>>

\* the extraction generator is exhausted: final completion
Phase2Ends ==
    /\ an_pc = "phase2" /\ an_pos = Len(an_phase2)
    /\ sent' = Append(sent, CompleteEvent)
    /\ an_pc' = "closed"
    /\ UNCHANGED <<an_phase1, an_phase2, an_pos, an_db_conn, an_failed>>
    /\ UNCHANGED <<ddVars, agVars, colVars, exVars, outVars, grVars, qVars>>

---------------------------------------------------------------------------
(* Specifications *)

IdleDedup == dd_pc = "idle" /\ dd_subreddits = <<>> /\ dd_result = {}
IdleAggregate ==
    /\ ag_pc = "idle" /\ combined = <<>> /\ ag_returned = <<>>
    /\ ag_invoked = {} /\ ag_result = {}
IdleCollect ==
    /\ mode = "idle" /\ query = <<>> /\ subreddits = <<>> /\ pc = "idle"
    /\ i = 0 /\ batch = <<>> /\ batch_num = 1 /\ task = <<>> /\ posts = <<>>
    /\ pending = <<>> /\ db = <<>> /\ db_open = FALSE /\ scored = {}
    /\ clock = 0 /\ batches = <<>> /\ jitters = 0 /\ fetch_calls = <<>>
    /\ cutoffs = {}
IdleExtract ==
    /\ x_mode = "idle" /\ x_pc = "idle" /\ all_posts = <<>> /\ post_batches = <<>>
    /\ results = <<>> /\ completed = <<>> /\ inference_calls = <<>>
    /\ canonical_names = {} /\ resolution = [how |-> "none", groups |-> <<>>]
    /\ resolve_calls = 0
    /\ name_mapping = <<>> /\ triplet_rows = <<>> /\ x_trace = <<>>
IdleOut == posts_table = {} /\ disk_open = FALSE /\ handed = "nothing"
IdleGraph == g_pc = "idle" /\ g_rows = <<>> /\ nodes = <<>> /\ links = <<>>
IdleQuery ==
    /\ q_pc = "idle" /\ q_store = <<>> /\ q_before = <<>> /\ q_name = ""
    /\ q_report = "" /\ q_fault = "" /\ q_status = 0
IdleAnalysis ==
    /\ an_pc = "idle" /\ an_phase1 = <<>> /\ an_phase2 = <<>> /\ an_pos = 0
    /\ an_db_conn = "None" /\ an_failed = FALSE /\ sent = <<>>
IdleViews == IdleGraph /\ IdleQuery /\ IdleAnalysis

\* deduplicate_subreddits on every bounded input list
DedupStart ==
    InitDedup /\ IdleAggregate /\ IdleCollect /\ IdleExtract /\ IdleOut /\ IdleViews
NextDedup == Deduplicate
SpecDedup == DedupStart /\ [][NextDedup]_vars

\* aggregate_and_filter_subreddits over every outcome of the three sources
AggregateStart ==
    IdleDedup /\ InitAggregate /\ IdleCollect /\ IdleExtract /\ IdleOut /\ IdleViews
NextAggregate == SourceReturns \/ SourceRaises \/ AggregateReturn
SpecAggregate == AggregateStart /\ [][NextAggregate]_vars

\* the Evidence Collector and the Ranker, in the three ways they are run
Init ==
    IdleDedup /\ IdleAggregate /\ InitCollect /\ IdleExtract /\ IdleOut /\ IdleViews
Next ==
    \/ Start \/ StartBatch \/ LoopExit
    \/ StreamFetchStart \/ StreamFetchReturns \/ StreamFetchRaises \/ StreamGather
    \/ TaskRun \/ FetchReturns \/ FetchRaises \/ InsertDone \/ InsertRaises
    \/ GatherDone \/ Jitter
    \/ RankScore \/ RankRetain
    \/ ProcessJsonResponses \/ ProcessJsonResponsesOnList
Spec == Init /\ [][Next]_vars

\* the Ranker alone, on stores larger than the retained top 20
RankStart ==
    IdleDedup /\ IdleAggregate /\ InitRank /\ IdleExtract /\ IdleOut /\ IdleViews
NextRank == RankScore \/ RankRetain
SpecRank == RankStart /\ [][NextRank]_vars

\* the Extractor and the Resolver, as a call and as a stream
ExtractStart ==
    IdleDedup /\ IdleAggregate /\ IdleCollect /\ InitExtract /\ IdleOut /\ IdleViews
NextExtract ==
    CreateBatches \/ BatchInference \/ ExtractionRaises \/ ResolveNames \/ PersistTriplets
SpecExtract == ExtractStart /\ [][NextExtract]_vars

\* the force-layout view over every bounded triplet table
GraphStart ==
    /\ IdleDedup /\ IdleAggregate /\ IdleCollect /\ IdleExtract /\ IdleOut
    /\ InitGraph /\ IdleQuery /\ IdleAnalysis
NextGraph == GetForceGraph \/ GetForceGraphFails
SpecGraph == GraphStart /\ [][NextGraph]_vars

\* one query of one candidate, over every bounded store, name and store fault
QueryStart ==
    /\ IdleDedup /\ IdleAggregate /\ IdleCollect /\ IdleExtract /\ IdleOut
    /\ IdleGraph /\ InitQuery /\ IdleAnalysis
NextQuery == GetSubreddit
SpecQuery == QueryStart /\ [][NextQuery]_vars

\* one analysis stream, a phase raising at any point or not at all
AnalysisStart ==
    /\ IdleDedup /\ IdleAggregate /\ IdleCollect /\ IdleExtract /\ IdleOut
    /\ IdleGraph /\ IdleQuery /\ InitAnalysis
NextAnalysis ==
    \/ Phase1Next \/ Phase1Raises \/ Phase1Ends
    \/ Phase2Next \/ Phase2Raises \/ Phase2Ends
SpecAnalysis == AnalysisStart /\ [][NextAnalysis]_vars

---------------------------------------------------------------------------
(* Normalizer and Source Aggregator properties *)

DedupInputs == { dd_subreddits[k] : k \in 1..Len(dd_subreddits) }

\* an input that carries no identifier: not a string, empty, or only whitespace
NoIdentifier(x) == ~IsStr(x) \/ Strip(x) = <<>>

\* the identifier a raw string is a variant of: trimmed, lower-cased, without
\* its "r/" or "/r/" prefix
IdentityOf(x) ==
    LET t == Lower(Strip(x))
    IN IF StartsWith(t, SlashRSlash) THEN SubSeq(t, 4, Len(t))
       ELSE IF StartsWith(t, RSlash) THEN SubSeq(t, 3, Len(t))
       ELSE t

\* the normalizer returns a fixed point for every string it names
NormalizeIdempotent ==
    \A x \in DedupInputs :
        normalize_name(x) # PyNone => normalize_name(normalize_name(x)) = normalize_name(x)

\* C1: every name the normalizer returns for a non-empty string is a fixed
\* point of the normalizer, and an input without identifier (not a string,
\* empty, only whitespace) gets no name and adds nothing to the output of
\* deduplicate_subreddits.
C1_NormalizerTotalIdempotent ==
    dd_pc = "returned" =>
        /\ NormalizeIdempotent
        /\ \A x \in DedupInputs : NoIdentifier(x) => ~Truthy(normalize_name(x))
        /\ dd_result = { normalize_name(x) : x \in { y \in DedupInputs : ~NoIdentifier(y) } }

\* C2: all case, prefix and whitespace variants of one identifier that occur
\* in the input of deduplicate_subreddits end as exactly one entry of its
\* output.
C2_VariantsCollapse ==
    dd_pc = "returned" =>
        \A x \in DedupInputs :
            (IsStr(x) /\ IdentityOf(x) # <<>>) =>
                Cardinality({ normalize_name(y) : y \in
                    { z \in DedupInputs : IsStr(z) /\ IdentityOf(z) = IdentityOf(x) } }
                    \cap dd_result) = 1

\* the lists of the sources that did not fail, in call order
RECURSIVE ReturnedBy(_)
ReturnedBy(k) ==
    IF k = 0 THEN <<>>
    ELSE ReturnedBy(k - 1) \o
         (IF ag_returned[Sources[k]].failed THEN <<>> ELSE ag_returned[Sources[k]].found)

\* C3: whichever sources raise, aggregate_and_filter_subreddits invokes all
\* three, returns normally, and returns exactly the deduplicated
\* normalization of what the sources that did not fail returned.
C3_SourceFailureIsolated ==
    /\ ag_pc # "raised"
    /\ ag_pc = "returned" =>
          /\ ag_invoked = {"reddit", "gemini", "google"}
          /\ ag_result = deduplicate_subreddits(ReturnedBy(Len(Sources)))
          /\ (\A k \in 1..Len(Sources) : ag_returned[Sources[k]].failed) => ag_result = {}

C3_Witness ==
    /\ ag_pc = "returned"
    /\ ag_returned["reddit"].failed
    /\ ~ag_returned["gemini"].failed
    /\ ag_returned["google"].failed
    /\ ag_result # {}

---------------------------------------------------------------------------
(* Evidence Collector properties *)

AfterCollect == {"rank", "retain", "saving", "returned_empty"}
BatchSize(k) == batches[k][2] - batches[k][1] + 1

\* C4: when the Evidence Collector has finished, the store holds one row for
\* every candidate of the input, whatever the outcome of its fetch.
C4_OneRowPerCandidate ==
    pc = "rank" => DOMAIN db = Cands

\* C5: a failure of one candidate's fetch or row computation never leaves
\* its task: every candidate of the batch and of the later batches has its
\* fetch invoked and its task run to the end, every candidate whose own
\* steps succeeded has its row, and the pipeline reaches the ranking step.
C5_FailureContained ==
    /\ pc # "aborted"
    /\ pc \in {"jitter", "loop"} =>
          \A c \in 1..i : task[c] \in {"done", "failed"} /\ fetch_calls[c] = 1
    /\ pc \in AfterCollect =>
          \A c \in Cands : task[c] \in {"done", "failed"} /\ fetch_calls[c] = 1
    /\ pc = "rank" => \A c \in Cands : task[c] = "done" => c \in DOMAIN db

C5_Witness ==
    /\ pc = "rank"
    /\ Len(batches) = 2
    /\ task[1] = "failed"
    /\ task[2] = "done"
    /\ task[Len(subreddits)] = "done"

C7_JitterBetweenBatches ==
    /\ pc = "jitter" =>
          /\ InFlight = {}
          /\ \A k \in 1..Len(batch) : task[batch[k]] \in {"done", "failed"}
          /\ i < Len(subreddits)
          /\ jitters = Len(batches) - 1
    /\ pc \in {"fetch", "gather"} => jitters = Len(batches) - 1
    /\ (pc = "loop" /\ i < Len(subreddits)) => jitters = Len(batches)
    /\ ((pc = "loop" /\ ~(i < Len(subreddits))) \/ pc \in AfterCollect) =>
          jitters = (IF batches = <<>> THEN 0 ELSE Len(batches) - 1)

C7_Witness ==
    /\ pc = "rank"
    /\ Len(batches) = 2
    /\ jitters = 1

\* C8: every freshness count of one run uses the cutoff
\* (pipeline start time - 48 hours).
C8_SingleCutoff ==
    \A x \in cutoffs : x = StartTime - H48

---------------------------------------------------------------------------
(* Metric properties *)

\* the positions at which pat occurs in text
Occurrences(text, pat) ==
    { k \in 1..(Len(text) - Len(pat) + 1) : SubSeq(text, k, k + Len(pat) - 1) = pat }

\* the largest number of occurrences of pat in text no two of which overlap
NonOverlapping(text, pat) ==
    LET disjoint == { S \in SUBSET Occurrences(text, pat) :
                        \A a \in S, b \in S : a < b => b - a >= Len(pat) }
    IN SetMax({ Cardinality(S) : S \in disjoint })

\* occurrences of the query in the title plus occurrences in the body
InTitleAndBody(post, q) ==
    NonOverlapping(Lower(post.post_title), Lower(q))
        + NonOverlapping(Lower(post.self_text), Lower(q))

\* occurrences of the query in title, one space, body
InJoinedText(post, q) ==
    NonOverlapping(Lower(post.post_title) \o <<" ">> \o Lower(post.self_text), Lower(q))

\* items created within the 48 hours before `now`
FreshItems(ps, now) ==
    Cardinality({ k \in 1..Len(ps) :
        ps[k].created # NoDate /\ now - H48 <= ps[k].created /\ ps[k].created <= now })

TotalVotes(ps) == SumSeq([k \in 1..Len(ps) |-> ps[k].ups])
TotalComments(ps) == SumSeq([k \in 1..Len(ps) |-> ps[k].num_comments])

\* the three counts for every query and every list of fetched items
\* (index 0: no items)
ItemsAt(p) == IF p = 0 THEN <<>> ELSE PostLists[p]
TitleAndBodyCount ==
    [q \in Queries |-> [p \in 0..Len(PostLists) |->
        SumSeq([k \in 1..Len(ItemsAt(p)) |-> InTitleAndBody(ItemsAt(p)[k], q)])]]
JoinedTextCount ==
    [q \in Queries |-> [p \in 0..Len(PostLists) |->
        SumSeq([k \in 1..Len(ItemsAt(p)) |-> InJoinedText(ItemsAt(p)[k], q)])]]
VotesAndComments ==
    [p \in 0..Len(PostLists) |-> TotalVotes(ItemsAt(p)) + TotalComments(ItemsAt(p))]

\* the row of candidate c is being written, or is written and not yet pruned
Inserting == { c \in Cands : task[c] = "inserting" }
Persisted == IF pc \in {"start", "loop", "fetch", "gather", "jitter", "rank"}
             THEN DOMAIN db ELSE {}

\* C9 as stated: the frequency is the number of occurrences of the
\* lower-cased query in the lower-cased title and in the lower-cased body of
\* the fetched items.
C9_FrequencyInTitleAndBody ==
    \A c \in Inserting : pending[c].frequency = TitleAndBodyCount[query][posts[c]]

\* C9: the frequency handed to the store and persisted is the number of
\* non-overlapping occurrences of the lower-cased query in lower-cased title,
\* one space and lower-cased body joined, summed over the fetched items; the
\* freshness is the number of items created in the 48 hours before the row
\* is computed; the engagement is votes plus comments over all items.
C9_MetricsOfJoinedText ==
    /\ \A c \in Inserting :
          /\ pending[c].frequency = JoinedTextCount[query][posts[c]]
          /\ pending[c].freshness = FreshItems(ItemsAt(posts[c]), clock)
          /\ pending[c].engagement = VotesAndComments[posts[c]]
    /\ \A c \in Persisted :
          LET p == db[c].json_response
          IN /\ db[c].frequency = JoinedTextCount[query][p]
             /\ \E x \in cutoffs : db[c].freshness = FreshItems(ItemsAt(p), x + H48)
             /\ db[c].engagement = VotesAndComments[p]
    /\ \A c \in Persisted :
          (query = TeslaCap /\ db[c].json_response = 1) =>
              db[c].frequency = 4 /\ db[c].freshness = 3

C9_Witness ==
    /\ pc = "rank"
    /\ query = TeslaCap
    /\ \E c \in DOMAIN db : db[c].frequency = 4 /\ db[c].freshness = 3

---------------------------------------------------------------------------
(* Ranker properties *)

\* C10: after the Ranker, a row of the store has a relevance score exactly
\* when its frequency meets the floor, and only rows that meet the floor
\* entered the maps the per-metric maxima are taken over.
C10_ScoredIffFloor ==
    /\ pc = "retain" =>
          /\ scored \subseteq DOMAIN db
          /\ \A c \in scored : db[c].frequency >= MinFrequency
    /\ pc \in {"retain", "saving"} =>
          \A c \in DOMAIN db :
              ~db[c].relevance.null <=> db[c].frequency >= MinFrequency

C10_Witness ==
    /\ pc = "saving"
    /\ \E c \in DOMAIN db, d \in DOMAIN db :
          /\ ~db[c].relevance.null
          /\ db[d].relevance.null
          /\ db[d].engagement > db[c].engagement

\* the maps the Ranker normalizes: the rows that meet the frequency floor
RankedRows ==
    IF pc = "rank" THEN { c \in DOMAIN db : db[c].frequency >= MinFrequency }
    ELSE scored
Metrics == {"frequency", "freshness", "engagement"}
RawMax(m) == SetMax({ db[c][m] : c \in RankedRows })

\* C11: for each of the three metrics, normalize_map divides by a non-zero
\* number only, gives every scored candidate raw/max, gives the holder of
\* the maximum 1.0, and gives every candidate 0.0 when the maximum is zero.
C11_MaxScaling ==
    (pc \in {"rank", "retain"} /\ RankedRows # {}) =>
        \A m \in Metrics : \A c \in RankedRows :
            LET nv == normalize_map(db[c][m], RawMax(m))
            IN /\ nv.den # 0
               /\ RawMax(m) = 0 => nv.num = 0
               /\ RawMax(m) # 0 => nv.num * RawMax(m) = db[c][m] * nv.den
               /\ (RawMax(m) # 0 /\ db[c][m] = RawMax(m)) => nv.num = nv.den

C11_Witness ==
    /\ pc = "retain"
    /\ Cardinality(scored) >= 2
    /\ RawMax("freshness") = 0
    /\ RawMax("engagement") > 0
    /\ \E c \in scored : 0 < db[c].engagement /\ db[c].engagement < RawMax("engagement")

\* raw/max of one metric as a fraction with a positive denominator (0 when
\* the maximum is 0)
Norm(c, m) ==
    IF RawMax(m) = 0 THEN <<0, 1>>
    ELSE IF RawMax(m) < 0 THEN <<0 - db[c][m], 0 - RawMax(m)>>
    ELSE <<db[c][m], RawMax(m)>>
HoldsAllMaxima(c) == \A m \in Metrics : db[c][m] = RawMax(m)

\* C12: the persisted score of every scored candidate is
\* 40*norm_frequency + 30*norm_freshness + 30*norm_engagement, lies in 0..100,
\* and is 100 for a candidate that holds the maximum of all three metrics.
C12_ScoreInRange ==
    pc = "retain" =>
        \A c \in scored :
            LET r == db[c].relevance
                f == Norm(c, "frequency")
                h == Norm(c, "freshness")
                e == Norm(c, "engagement")
            IN /\ ~r.null /\ r.den > 0
               /\ r.num * (f[2] * h[2] * e[2])
                     = r.den * (40 * f[1] * h[2] * e[2] + 30 * h[1] * f[2] * e[2]
                                  + 30 * e[1] * f[2] * h[2])
               /\ 0 <= r.num /\ r.num <= 100 * r.den
               /\ HoldsAllMaxima(c) => r.num = 100 * r.den

\* a score strictly greater than another, both computed
Greater(a, b) == ~a.null /\ ~b.null /\ a.num * b.den > b.num * a.den

\* C13: when more than 20 candidates were scored, the retention step leaves
\* exactly 20 rows, all of them scored, and deletes no scored candidate whose
\* score is strictly greater than that of a retained one.
C13_RetainsTwentyBest ==
    [][ (pc = "retain" /\ pc' = "saving" /\ Cardinality(scored) > 20) =>
          /\ Cardinality(DOMAIN db') = 20
          /\ DOMAIN db' \subseteq scored
          /\ \A d \in scored \ DOMAIN db' : \A k \in DOMAIN db' :
                ~Greater(db[d].relevance, db[k].relevance) ]_vars

C13_Witness ==
    /\ pc = "saving"
    /\ Cardinality(scored) = 21
    /\ Len(subreddits) = 22
    /\ Cardinality(DOMAIN db) = 20

\* a stands strictly before b in every descending order of the scores
StrictlyAbove(a, b) == ~a.null /\ (b.null \/ a.num * b.den > b.num * a.den)
WithPayload(table) == { c \in DOMAIN table : table[c].json_response # 0 }

\* C14: after the pruning step at most 5 retained candidates hold a payload,
\* each of them has fewer than 5 retained candidates scored strictly above
\* it, every retained candidate with 5 or more above it has a null payload,
\* and score and metrics of every retained candidate are as before.
C14_PayloadOfTopFive ==
    [][ (pc = "retain" /\ pc' = "saving") =>
          /\ Cardinality(WithPayload(db')) <= 5
          /\ \A c \in DOMAIN db' :
                LET above == { d \in DOMAIN db' :
                                 StrictlyAbove(db'[d].relevance, db'[c].relevance) }
                IN /\ c \in WithPayload(db') => Cardinality(above) < 5
                   /\ Cardinality(above) >= 5 => db'[c].json_response = 0
          /\ \A c \in DOMAIN db' :
                /\ db'[c].relevance = db[c].relevance
                /\ \A m \in Metrics : db'[c][m] = db[c][m] ]_vars

C14_Witness ==
    /\ pc = "saving"
    /\ Cardinality(WithPayload(db)) = 5
    /\ \E c \in DOMAIN db \ WithPayload(db) : ~db[c].relevance.null
    /\ \E c \in WithPayload(db), d \in DOMAIN db \ WithPayload(db) :
          db[c].relevance = db[d].relevance

---------------------------------------------------------------------------
(* Extractor and Resolver properties *)

Batched == x_pc \in {"extracting", "aborted", "resolved", "done"}
NamesResolved == x_pc \in {"resolved", "done"}
SliceOf(b) == post_batches[b][1]..post_batches[b][2]

\* C15: a corpus of n items is cut into ceil(n/25) consecutive non-empty
\* slices that cover it, all but the last of 25 items; each batch gets one
\* inference step, never more (30 items: slices 1..25 and 26..30).
C15_BatchesOfTwentyFive ==
    Batched =>
        LET n == Len(all_posts)
            k == Len(post_batches)
        IN /\ 25 * k >= n /\ 25 * (k - 1) < n
           /\ \A b \in 1..k : post_batches[b][1] <= post_batches[b][2]
           /\ \A b \in 1..(k - 1) :
                 /\ Cardinality(SliceOf(b)) = 25
                 /\ post_batches[b + 1][1] = post_batches[b][2] + 1
           /\ \A p \in 1..n : Cardinality({ b \in 1..k : p \in SliceOf(b) }) = 1
           /\ \A b \in 1..k : \A p \in SliceOf(b) : p \in 1..n
           /\ \A b \in 1..k :
                 inference_calls[b] = IF results[b] = "pending" THEN 0 ELSE 1
           /\ NamesResolved => \A b \in 1..k : inference_calls[b] = 1
           /\ n = 30 => post_batches = << <<1, 25>>, <<26, 30>> >>

C15_Witness ==
    /\ x_pc = "done"
    /\ Len(all_posts) = 30
    /\ post_batches = << <<1, 25>>, <<26, 30>> >>
    /\ inference_calls = <<1, 1>>

FailedBatches == { b \in DOMAIN results : results[b] \notin Answers \cup {"pending"} }

\* C16: a batch whose inference step failed is recorded as one analysis per
\* item of the batch with the flag false, the justification "Error" and no
\* triplets, and the run is not aborted.
C16_BatchFailureContained ==
    /\ x_pc # "aborted"
    /\ \A b \in FailedBatches :
          /\ Len(BatchResults(b)) = Cardinality(SliceOf(b))
          /\ \A k \in 1..Len(BatchResults(b)) :
                /\ BatchResults(b)[k].post_id = post_batches[b][1] + k - 1
                /\ BatchResults(b)[k].has_business_info = FALSE
                /\ BatchResults(b)[k].justification = "Error"
                /\ BatchResults(b)[k].triplets = <<>>

\* the canonical subject and object names of everything the batches returned
NamesOfAnswer(a) ==
    CASE a = "A1" -> {"Musk", "Tesla Inc"}
      [] a = "A2" -> {"Elon Musk", "Tesla", "Rivian"}
      [] OTHER -> {}
AllNames == UNION { NamesOfAnswer(results[b]) : b \in DOMAIN results }
AllReturned == \A b \in DOMAIN results : results[b] \in Answers \cup {"error"}

\* C17 as stated: every extraction run issues the clustering step exactly once
C17_ClusteringExactlyOnce ==
    x_pc \in {"resolved", "done", "aborted"} => resolve_calls = 1

\* C17: the clustering inference step is begun at most once per run, never
\* while a batch is outstanding, and with the set of all canonical names of
\* all batches; it is begun exactly once when that set is not empty and not
\* at all when it is empty.
C17_ClusteringAtMostOnce ==
    /\ resolve_calls <= 1
    /\ x_pc \in {"start", "extracting", "aborted"} => resolve_calls = 0
    /\ resolve_calls = 1 =>
          /\ AllReturned
          /\ canonical_names = AllNames
          /\ canonical_names # {}
    /\ NamesResolved => (resolve_calls = 1 <=> AllNames # {})

C17_Witness ==
    /\ x_pc = "done"
    /\ resolve_calls = 1
    /\ Len(post_batches) = 3
    /\ results[1] = "A1" /\ results[3] = "A2"
    /\ canonical_names = {"Musk", "Tesla Inc", "Elon Musk", "Tesla", "Rivian"}

Mentioned ==
    { resolution.groups[k].master_name : k \in DOMAIN resolution.groups }
        \cup UNION { Range(resolution.groups[k].variants) : k \in DOMAIN resolution.groups }

\* C18: the returned mapping has every input name as a key, maps a name the
\* clustering result does not mention to itself, is the identity when the
\* clustering step failed, and maps no input name to an empty value.
C18_MappingTotal ==
    NamesResolved =>
        \A name \in canonical_names :
            /\ name \in DOMAIN name_mapping
            /\ name_mapping[name] # ""
            /\ name \notin Mentioned => name_mapping[name] = name
            /\ resolution.how \in Failures => name_mapping[name] = name

\* C19: every variant of every group maps to the group's master name, every
\* master name maps to itself, and every resolved name is a fixed point.
C19_GroupsConverge ==
    (NamesResolved /\ resolution.how = "returned") =>
        /\ \A k \in DOMAIN resolution.groups :
              LET g == resolution.groups[k]
              IN /\ name_mapping[g.master_name] = g.master_name
                 /\ \A v \in Range(g.variants) : name_mapping[v] = g.master_name
        /\ \A x \in DOMAIN name_mapping :
              /\ name_mapping[x] \in DOMAIN name_mapping
              /\ name_mapping[name_mapping[x]] = name_mapping[x]

\* the triplets the Extractor produced, each with the analysis it sits in
Produced ==
    Flatten([k \in 1..Len(AllExtractions) |->
                [j \in 1..Len(AllExtractions[k].triplets) |->
                    [triplet |-> AllExtractions[k].triplets[j],
                     analysis |-> AllExtractions[k]]]])
Image(name) == IF name \in DOMAIN name_mapping THEN name_mapping[name] ELSE name

\* C20: the triplet store is empty until the mapping was built and then
\* holds one row per produced triplet, subject and object replaced by their
\* image under the mapping, the other five columns as produced.
C20_OnlyResolvedRows ==
    /\ x_pc # "done" => triplet_rows = <<>>
    /\ x_pc = "done" =>
          LET produced == Produced
          IN /\ Len(triplet_rows) = Len(produced)
             /\ \A k \in 1..Len(produced) :
                   LET row == triplet_rows[k]
                       t == produced[k].triplet
                       a == produced[k].analysis
                   IN /\ row.subject = Image(t.subject)
                      /\ row.object = Image(t.object)
                      /\ row.relationship = t.relationship
                      /\ row.evidence = t.evidence
                      /\ row.post_id = a.post_id
                      /\ row.post_url = a.post_url
                      /\ row.justification = a.justification

C20_Witness ==
    /\ x_pc = "done"
    /\ Len(triplet_rows) = 3
    /\ \E k \in 1..Len(triplet_rows) :
          /\ Produced[k].triplet.subject = "Musk"
          /\ triplet_rows[k].subject = "Elon Musk"
          /\ triplet_rows[k].object = "Tesla"
    /\ \E k \in 1..Len(triplet_rows) : triplet_rows[k].object = "Rivian"

---------------------------------------------------------------------------
(* Hand-over properties of the discovery pipelines *)

FetchReturned(c) == task[c] \in {"ready", "inserting", "done"}

\* C26: in every batch, as soon as the fetch of one candidate has returned,
\* the fetch of every candidate of that batch has been issued.
C26_BatchFetchesIssuedTogether ==
    pc \in {"fetch", "gather"} =>
        ((\E k \in 1..Len(batch) : FetchReturned(batch[k]))
            => \A k \in 1..Len(batch) : fetch_calls[batch[k]] >= 1)

\* C28: the candidates whose items process_json_responses persisted all have
\* a relevance score and fewer than 5 retained candidates scored above them.
C28_ItemsOnlyForTopFive ==
    pc = "returned" =>
        \A c \in posts_table :
            /\ ~db[c].relevance.null
            /\ Cardinality({ d \in DOMAIN db :
                    StrictlyAbove(db[d].relevance, db[c].relevance) }) < 5

\* C29: the connection the caller received is open.
C29_HandedConnectionOpen ==
    /\ handed = "memory" => db_open
    /\ handed = "disk" => disk_open

\* C30: a pipeline run never ends by raising; without candidates, or without
\* a candidate at the frequency floor, it returns.
C30_NoDataWithoutRaising ==
    pc # "raised" /\ handed \in {"nothing", "memory", "disk"}

---------------------------------------------------------------------------
(* Progress events of parallel_extraction_stream *)

StreamEvents == SelectSeq(x_trace, LAMBDA e : e.kind = "event")

\* the events of a run over n batches that reaches its end
ExpectedEvents(n) ==
    << Event("extracting", "Extracting Entities", 0, 0) >>
    \o [k \in 1..n |-> Event("batch_completed", "Batch processing completed", k, n)]
    \o << Event("building_entities", "Building list", 0, 0),
          Event("storing", "Storing Entities & Relationships", 0, 0) >>

IsPrefix(s, t) == Len(s) <= Len(t) /\ s = SubSeq(t, 1, Len(s))

\* every call of that name stands after the event of that stage
CallFollows(name, stage) ==
    \A k \in 1..Len(x_trace) :
        x_trace[k] = Call(name) =>
            \E j \in 1..(k - 1) : x_trace[j].kind = "event" /\ x_trace[j].stage = stage

---------------------------------------------------------------------------
(* Force-layout view properties *)

LinkOf(source, target) ==
    { k \in 1..Len(links) : links[k].source = source /\ links[k].target = target }
HasLink(source, target) == LinkOf(source, target) # {}
RowsWith(subject, obj) ==
    { k \in 1..Len(g_rows) : g_rows[k].subject = subject /\ g_rows[k].object = obj }
GraphEntitiesSeen ==
    { g_rows[k].subject : k \in 1..Len(g_rows) } \cup { g_rows[k].object : k \in 1..Len(g_rows) }

\* C21: an edge (A,B) with A different from B whose reverse (B,A) exists has a
\* nonzero curvature, the opposite of the reverse edge's; every other edge, an
\* edge from an entity to itself included, has curvature 0.
C21_CurvatureOnlyForTwoWayPairs ==
    g_pc = "returned" =>
        \A k \in 1..Len(links) :
            LET l == links[k]
            IN IF l.source # l.target /\ HasLink(l.target, l.source)
               THEN /\ l.curvature # 0
                    /\ \A j \in LinkOf(l.target, l.source) :
                          links[j].curvature = 0 - l.curvature
               ELSE l.curvature = 0

\* C22: the nodes are the distinct entities of the triplets, one node each,
\* and a node's size weight is the number of triplets with the entity as
\* subject plus the number of triplets with it as object.
C22_NodeWeightIsDegree ==
    g_pc = "returned" =>
        /\ { nodes[k].id : k \in 1..Len(nodes) } = GraphEntitiesSeen
        /\ \A j, k \in 1..Len(nodes) : nodes[j].id = nodes[k].id => j = k
        /\ \A k \in 1..Len(nodes) :
              nodes[k].val =
                  Cardinality({ r \in 1..Len(g_rows) : g_rows[r].subject = nodes[k].id })
                + Cardinality({ r \in 1..Len(g_rows) : g_rows[r].object = nodes[k].id })

\* a view of a table that holds a triplet from an entity to itself
C22_Witness ==
    /\ g_pc = "returned" /\ Len(nodes) >= 2
    /\ \E r \in 1..Len(g_rows) : g_rows[r].subject = g_rows[r].object

\* C22 as stated: a node's size weight is the number of triplets that touch
\* the entity, a triplet from the entity to itself being one triplet.
C22_NodeWeightCountsTriplets ==
    g_pc = "returned" =>
        \A k \in 1..Len(nodes) :
            nodes[k].val =
                Cardinality({ r \in 1..Len(g_rows) :
                    g_rows[r].subject = nodes[k].id \/ g_rows[r].object = nodes[k].id })

\* C23: there is exactly one edge per distinct ordered (subject, object) pair
\* of the triplets; its relation types are the relation types of the triplets
\* of that ordered pair, and its evidence phrases and URLs are the non-empty
\* evidence phrases and URLs of exactly those triplets.
C23_OneEdgePerOrderedPair ==
    g_pc = "returned" =>
        /\ { <<links[k].source, links[k].target>> : k \in 1..Len(links) }
              = { <<g_rows[r].subject, g_rows[r].object>> : r \in 1..Len(g_rows) }
        /\ \A j, k \in 1..Len(links) :
              (links[j].source = links[k].source /\ links[j].target = links[k].target)
                  => j = k
        /\ \A k \in 1..Len(links) :
              LET mine == RowsWith(links[k].source, links[k].target)
              IN /\ links[k].relationships = { g_rows[r].relationship : r \in mine }
                 /\ { links[k].evidences[n] : n \in 1..Len(links[k].evidences) }
                       = { g_rows[r].evidence : r \in mine } \ {""}
                 /\ links[k].post_urls = { g_rows[r].post_url : r \in mine } \ {""}

\* a view with the edges (A,B) and (B,A), whose triplets differ in relation
\* type, one of them without evidence phrase
C23_Witness ==
    /\ g_pc = "returned"
    /\ HasLink("A", "B") /\ HasLink("B", "A")
    /\ \E j \in LinkOf("A", "B"), k \in LinkOf("B", "A") :
          links[j].relationships # links[k].relationships
    /\ \E r \in 1..Len(g_rows) : g_rows[r].evidence = ""

---------------------------------------------------------------------------
(* Query properties *)

QueriedStore == q_store[DbPath(q_report)]
StoreError == q_fault # "none" \/ ~QueriedStore.table

\* C24: a query by a name that the store does not hold, the store raising no
\* error, answers 404 and not 500; a query during which the store raises
\* answers 500 and not 404; either way the store is as it was before.
C24_NotFoundVersusFailure ==
    q_pc = "answered" =>
        /\ (~StoreError /\ q_name \notin QueriedStore.names) => q_status = 404
        /\ StoreError => q_status = 500
        /\ q_status \in {404, 500} => q_store = q_before

\* a query that answered not-found from a store holding another candidate
C24_Witness ==
    /\ q_pc = "answered" /\ q_status = 404
    /\ QueriedStore.names # {} /\ q_name \notin QueriedStore.names

---------------------------------------------------------------------------
(* Analysis stream properties *)

Terminal(e) == e.type \in {"complete", "error"}
InternalStages == {"_internal_result", "_internal_db_conn"}

\* C25: a terminal event is only ever the last event sent and closes the
\* stream; a stream that has ended has sent exactly one: "complete" when no
\* phase raised, "error" with stage "error" and a message when a phase raised;
\* "complete" is never sent once a phase has failed, and no event with an
\* internal stage is sent.
C25_OneTerminalEvent ==
    /\ \A k \in 1..Len(sent) :
          /\ Terminal(sent[k]) => (k = Len(sent) /\ an_pc = "closed")
          /\ sent[k].stage \notin InternalStages
          /\ an_failed => sent[k].type # "complete"
    /\ an_pc = "closed" =>
          /\ sent # <<>>
          /\ IF an_failed
             THEN sent[Len(sent)] = ErrorEvent /\ ErrorEvent.message # ""
             ELSE sent[Len(sent)] = CompleteEvent

\* a stream closed by an exception of the extraction phase, after progress
\* events of both phases
C25_Witness ==
    /\ an_pc = "closed" /\ an_failed
    /\ \E k \in 1..Len(sent) : sent[k].stage = "batch_completed"
    /\ sent[Len(sent)].type = "error"

====
